---- MODULE Spec2Model ----
(***************************************************************************)
(* Retail_EV: a conversational sales orchestrator (a LangGraph state graph *)
(* of nine nodes), the in-memory stores of its fulfillment, payment and    *)
(* post-purchase toolkits, the storage backends (the remote datastore      *)
(* handler and its in-memory fallback) with the loyalty-points update,     *)
(* and the loyalty tools that compute tiers and final prices.              *)
(*                                                                         *)
(* Stored records keep the fields the tools read or write after creation   *)
(* (customer, kind, status, amounts, reasons); timestamps, item lists,     *)
(* tracking numbers and message texts of tool results are left out.        *)
(* In the stores and the graph Python's None is the string "None"          *)
(* (NoAmount for an absent number); in the loyalty tools it is the empty   *)
(* tuple None. Amounts of the pricing tool are Python floats, rounded as   *)
(* Python rounds them.                                                     *)
(***************************************************************************)
EXTENDS Integers, Sequences, FiniteSets, TLC

\* ------------------------------------------------------------------ bounds
\* uuid4().hex[:6] of an order id, as a small range of possible values.
MaxOrderIds == 2
\* uuid4().hex[:12] of a transaction id.
MaxTxnIds == 1
\* uuid4().hex[:10] of a return id.
MaxReturnIds == 1
\* Graph runs (chat turns) started in one behaviour.
MaxTurns == 2
\* Largest initial loyalty balance and largest points_to_add of the loyalty runs.
MaxPoints == 3
\* chat_history rows saved
MaxRows == 3
\* Largest loyalty_points of a customers row (data/generate_data.py draws
\* randint(0, 20000)).
MaxLoyaltyPoints == 20000

OrderIds == 1..MaxOrderIds
TxnIds == 1..MaxTxnIds
ReturnIds == 1..MaxReturnIds

CustomerIds == {"guest", "C001"}
SessionIds == {"s1", "s2"}

\* ------------------------------------------------------- enumerated types
OrderStatus ==
    {"pending", "confirmed", "processing", "shipped", "out_for_delivery",
     "delivered", "cancelled", "returned"}

FulfillmentType == {"ship_to_home", "click_and_collect", "buy_in_store"}

PaymentMethod ==
    {"credit_card", "debit_card", "upi", "net_banking", "wallet", "cod", "emi"}

PaymentStatus == {"pending", "processing", "completed", "failed", "refunded"}

ReturnReason ==
    {"size_issue", "quality_issue", "damaged", "wrong_item",
     "description_mismatch", "changed_mind", "better_price", "other"}

\* RefundSchema.amount defaults to None.
NoAmount == -1

VARIABLES
    _orders,            \* fulfillment_agent._orders: order_id -> order
    _transactions,      \* payment_agent._transactions: transaction_id -> transaction
    _return_requests,   \* post_purchase_agent._return_requests: return_id -> request
    result,             \* what the last tool call returned (or that it raised)
    threads,            \* the checkpointer: thread_id -> graph state
    run,                \* the graph run in progress: status, thread, node, caller
    response,           \* response_text of the last finished turn
    turns,              \* graph runs started so far
    chat_log,           \* storage.save_message rows of the backend in use
    customers,          \* remote table customers: loyalty_points of customer C001
    lp,                 \* the update_loyalty_points calls in progress
    db_client,          \* SupabaseDB._client of the global handler db
    loyalty_agent,      \* module agents.loyalty_agent: import outcome, its storage
    answer              \* what the last storage or loyalty call returned or raised

vars ==
    <<_orders, _transactions, _return_requests, result, threads, run, response,
      turns, chat_log, customers, lp, db_client, loyalty_agent, answer>>

toolVars == <<_orders, _transactions, _return_requests, result>>
graphVars == <<threads, run, response, turns, chat_log>>
loyaltyVars == <<customers, lp>>
storageVars == <<db_client, loyalty_agent, answer>>

\* ================================================================ toolkits
NoResult == [tool |-> "none", success |-> FALSE, raised |-> FALSE]

\* A tool call that returned: its name and the "success" of what it returned.
Returned(tool, success) == [tool |-> tool, success |-> success, raised |-> FALSE]

\* A tool call that raised.
Raised(tool) == [tool |-> tool, success |-> FALSE, raised |-> TRUE]

\* ------------------------------------------------------ fulfillment_agent
\* The order dict create_order builds.
NewOrder(customer_id, fulfillment_type, delivery_address, pickup_store_id) ==
    [customer_id |-> customer_id,
     fulfillment_type |-> fulfillment_type,
     status |-> "confirmed",
     delivery_address |-> delivery_address,
     pickup_store |-> pickup_store_id,
     cancellation_reason |-> "None"]

\* create_order's two early returns.
CreateOrderRejects(fulfillment_type, delivery_address, pickup_store_id) ==
    \/ fulfillment_type = "ship_to_home" /\ delivery_address = "None"
    \/ fulfillment_type = "click_and_collect" /\ pickup_store_id = "None"

\* _orders[order_id] = order
StoreOrder(orders, order_id, order) == (order_id :> order) @@ orders

\* order_id is the value ORD<date><uuid4().hex[:6]> happens to take: the code
\* draws it at random and stores under it without looking it up first.
create_order(customer_id, fulfillment_type, delivery_address, pickup_store_id, order_id) ==
    /\ IF CreateOrderRejects(fulfillment_type, delivery_address, pickup_store_id)
       THEN /\ result' = Returned("create_order", FALSE)
            /\ UNCHANGED _orders
       ELSE /\ _orders' =
                 StoreOrder(_orders, order_id,
                     NewOrder(customer_id, fulfillment_type, delivery_address,
                              pickup_store_id))
            /\ result' = Returned("create_order", TRUE)
    /\ UNCHANGED <<_transactions, _return_requests>>

\* cancellable_statuses with the first shipped state let through.
cancellable_statuses_shipped == {"pending", "confirmed", "processing", "shipped"}

cancellable_statuses == {"pending", "confirmed", "processing"}

\* The order as cancel_order leaves it.
CancelledOrder(order, reason) ==
    [order EXCEPT !.status = "cancelled", !.cancellation_reason = reason]

cancel_order(order_id, reason) ==
    /\ IF order_id \notin DOMAIN _orders
       THEN /\ result' = Returned("cancel_order", FALSE)
            /\ UNCHANGED _orders
       ELSE IF _orders[order_id].status \notin cancellable_statuses
       THEN /\ result' = Returned("cancel_order", FALSE)
            /\ UNCHANGED _orders
       ELSE /\ _orders' =
                 [_orders EXCEPT ![order_id] = CancelledOrder(@, reason)]
            /\ result' = Returned("cancel_order", TRUE)
    /\ UNCHANGED <<_transactions, _return_requests>>

\* get_order_status / track_order: a lookup, the stores untouched.
get_order_status(order_id) ==
    /\ result' = Returned("get_order_status", order_id \in DOMAIN _orders)
    /\ UNCHANGED <<_orders, _transactions, _return_requests>>

\* --------------------------------------------------------- payment_agent
\* PAYMENT_METHODS_CONFIG[method]["max_amount"]
max_amount(method) ==
    CASE method = "credit_card" -> 500000
      [] method = "debit_card" -> 200000
      [] method = "upi" -> 100000
      [] method = "net_banking" -> 1000000
      [] method = "wallet" -> 50000
      [] method = "cod" -> 10000
      [] method = "emi" -> 500000

\* PAYMENT_METHODS_CONFIG[method]["convenience_fee"]
convenience_fee(method) == IF method = "cod" THEN 50 ELSE 0

\* _validate_payment_method(...)["valid"]; the schema admits only PaymentMethod.
_validate_payment_method(payment_method, amount) ==
    /\ payment_method \in PaymentMethod
    /\ ~(amount > max_amount(payment_method))
    /\ ~(payment_method = "emi" /\ amount < 3000)

\* _calculate_final_amount(...)["total"]
_calculate_final_amount(amount, payment_method) ==
    amount + convenience_fee(payment_method)

\* The transaction dict initiate_payment builds.
NewTransaction(customer_id, amount, payment_method) ==
    [customer_id |-> customer_id,
     amount |-> _calculate_final_amount(amount, payment_method),
     payment_method |-> payment_method,
     status |-> "pending",
     refund_amount |-> NoAmount]

\* The status of the stored transaction when initiate_payment is left.
StatusAfterInitiate(payment_method) ==
    IF payment_method = "cod" THEN "completed" ELSE "pending"

\* transaction_id is the value TXN<uuid4().hex[:12]> happens to take. The upi
\* branch evaluates result["message": ...], a subscript with a slice, which
\* raises after the pending transaction has been stored.
initiate_payment(customer_id, amount, payment_method, transaction_id) ==
    /\ IF ~_validate_payment_method(payment_method, amount)
       THEN /\ result' = Returned("initiate_payment", FALSE)
            /\ UNCHANGED _transactions
       ELSE /\ _transactions' =
                 (transaction_id :>
                     [NewTransaction(customer_id, amount, payment_method)
                        EXCEPT !.status = StatusAfterInitiate(payment_method)])
                 @@ _transactions
            /\ result' =
                 IF payment_method = "upi"
                 THEN Raised("initiate_payment")
                 ELSE Returned("initiate_payment", TRUE)
    /\ UNCHANGED <<_orders, _return_requests>>

\* paid is the outcome of random.random() < 0.9.
process_payment(transaction_id, paid) ==
    /\ IF transaction_id \notin DOMAIN _transactions
       THEN /\ result' = Returned("process_payment", FALSE)
            /\ UNCHANGED _transactions
       ELSE /\ _transactions' =
                 [_transactions EXCEPT ![transaction_id].status =
                     IF paid THEN "completed" ELSE "failed"]
            /\ result' = Returned("process_payment", paid)
    /\ UNCHANGED <<_orders, _return_requests>>

\* refund_amount = amount or transaction["amount"]
RefundAmount(amount, transaction) ==
    IF amount = NoAmount \/ amount = 0 THEN transaction.amount ELSE amount

\* RefundedTransaction without the status assignment.
RefundedTransaction_keeps_status(transaction, refund_amount) ==
    [transaction EXCEPT !.refund_amount = refund_amount]

\* The transaction as a successful initiate_refund leaves it.
RefundedTransaction(transaction, refund_amount) ==
    [transaction EXCEPT !.status = "refunded", !.refund_amount = refund_amount]

initiate_refund(transaction_id, amount) ==
    /\ IF transaction_id \notin DOMAIN _transactions
       THEN /\ result' = Returned("initiate_refund", FALSE)
            /\ UNCHANGED _transactions
       ELSE IF _transactions[transaction_id].status # "completed"
       THEN /\ result' = Returned("initiate_refund", FALSE)
            /\ UNCHANGED _transactions
       ELSE IF RefundAmount(amount, _transactions[transaction_id])
                 > _transactions[transaction_id].amount
       THEN /\ result' = Returned("initiate_refund", FALSE)
            /\ UNCHANGED _transactions
       ELSE /\ _transactions' =
                 [_transactions EXCEPT ![transaction_id] =
                     RefundedTransaction(@, RefundAmount(amount, @))]
            /\ result' = Returned("initiate_refund", TRUE)
    /\ UNCHANGED <<_orders, _return_requests>>

\* ---------------------------------------------------- post_purchase_agent
auto_approve_reasons == {"damaged", "wrong_item"}

\* ReturnStatusFor with a status outside the two the tool writes.
ReturnStatusFor_auto(reason) ==
    IF reason \in auto_approve_reasons THEN "auto_approved" ELSE "requested"

\* The status of the stored request when initiate_return is left.
ReturnStatusFor(reason) ==
    IF reason \in auto_approve_reasons THEN "approved" ELSE "requested"

\* return_id is the value RET<uuid4().hex[:10]> happens to take; order_id is
\* not looked up in _orders.
initiate_return(order_id, customer_id, reason, return_id) ==
    /\ _return_requests' =
          (return_id :>
              [order_id |-> order_id, customer_id |-> customer_id,
               reason |-> reason, status |-> ReturnStatusFor(reason)])
          @@ _return_requests
    /\ result' = Returned("initiate_return", TRUE)
    /\ UNCHANGED <<_orders, _transactions>>

\* ======================================================= the sales graph
\* IntentSchema.intent
Intents ==
    {"greeting", "browsing", "product_inquiry", "cart_management", "checkout",
     "support", "end"}

\* What a user may type; the second names a product category.
UserTexts == {"hi", "show me shoes"}

DefaultText == "How can I help you today?"
GreetingText == "Hello there! Welcome to our store!"
RecommendFallback == "I'm having trouble finding products right now."
InventoryFallback == "Please provide a SKU or category name to check stock."
StockText == "Here's stock availability"
CartEmptyText == "Your cart is empty."
CheckoutText == "Proceeding to checkout."
PaymentFallback == "Unable to process payment right now."
FulfillFallback == "Order placed successfully!"
FarewellText == "Thank you for shopping with us!"
\* The last message of a specialist agent's run, written by the language model.
SpecialistText == "specialist answer"

\* langchain_core message objects: the class and the content. HumanMessage and
\* AIMessage carry a `type` ("human", "ai"); only ChatMessage has a `role`.
HumanMessage(content) == [class |-> "HumanMessage", content |-> content]
AIMessage(content) == [class |-> "AIMessage", content |-> content]

\* hasattr(m, 'role')
HasRole(m) == m.class = "ChatMessage"

\* m.role, read only where HasRole(m).
RoleOf(m) == IF HasRole(m) THEN m.role ELSE "None"

\* The `messages` channel of ConversationState. The field is annotated
\* Annotated[List[BaseMessage], Field(json_schema_extra={"reducer": add_messages})]:
\* the reducer sits inside a pydantic Field, not in the Annotated metadata the
\* graph library reads its reducers from, so the channel keeps the value last
\* written to it.
messages_channel(current, update) == update

\* state.messages[-1].content if state.messages else ""
last_message(state) ==
    IF state.messages = <<>> THEN "" ELSE state.messages[Len(state.messages)].content

\* _check_inventory's test for a category word (and no 'sku') in the message.
MentionsCategory(text) == text = "show me shoes"

\* ConversationState's defaults for a thread the checkpointer has not seen.
NewThread == [messages |-> <<>>, current_intent |-> "greeting", current_step |-> "greeting"]

\* The customer a session's requests name (state.customer_id or "guest").
CustomerOf(session) == IF session = "s1" THEN "C001" ELSE "guest"

\* _route_intent
_route_intent(state) == state.current_intent

\* The routing dict with two targets exchanged.
conditional_edges_swapped(key) ==
    CASE key = "greeting" -> "greet_customer"
      [] key = "browsing" -> "recommend_products"
      [] key = "product_inquiry" -> "check_inventory"
      [] key = "cart_management" -> "process_payment"
      [] key = "checkout" -> "manage_cart"
      [] key = "support" -> "handle_support"
      [] key = "end" -> "end_conversation"

\* add_conditional_edges("understand_intent", self._route_intent, {...})
conditional_edges(key) ==
    CASE key = "greeting" -> "greet_customer"
      [] key = "browsing" -> "recommend_products"
      [] key = "product_inquiry" -> "check_inventory"
      [] key = "cart_management" -> "manage_cart"
      [] key = "checkout" -> "process_payment"
      [] key = "support" -> "handle_support"
      [] key = "end" -> "end_conversation"

\* add_edge(...)
edge(node) ==
    CASE node = "greet_customer" -> "recommend_products"
      [] node = "recommend_products" -> "check_inventory"
      [] node = "check_inventory" -> "manage_cart"
      [] node = "manage_cart" -> "process_payment"
      [] node = "process_payment" -> "fulfill_order"
      [] node = "fulfill_order" -> "end_conversation"
      [] node = "handle_support" -> "end_conversation"
      [] node = "end_conversation" -> "END"

Idle == [status |-> "idle", thread |-> "s1", node |-> "END", caller |-> "chat"]

At(node) == run.status = "running" /\ run.node = node

State == threads[run.thread]

\* A node returned `update` (the keys it wrote): the channels take it and the
\* run moves along the node's edge.
Apply(update, next) ==
    /\ threads' = [threads EXCEPT ![run.thread] = update]
    /\ run' = [run EXCEPT !.node = next]

\* A node returned {"messages": [message]}.
WithMessage(state, message) ==
    [state EXCEPT !.messages = messages_channel(@, <<message>>)]

\* storage.save_message(session_id, customer_id, role, content)
save_message(log, session_id, role, content) ==
    Append(log, [session_id |-> session_id, role |-> role, content |-> content])

\* POST /chat: graph.ainvoke({"messages": [HumanMessage(message)], ...}, thread).
Chat ==
    /\ run.status # "running"
    /\ turns < MaxTurns
    /\ \E session \in SessionIds, text \in UserTexts :
          /\ threads' = [threads EXCEPT ![session] = WithMessage(@, HumanMessage(text))]
          /\ run' = [status |-> "running", thread |-> session,
                     node |-> "understand_intent", caller |-> "chat"]
    /\ turns' = turns + 1
    /\ UNCHANGED <<response, chat_log, toolVars, loyaltyVars, storageVars>>

\* SalesAgent.process_message up to graph.ainvoke.
ProcessMessage ==
    /\ run.status # "running"
    /\ turns < MaxTurns
    /\ \E session \in SessionIds, text \in UserTexts :
          /\ chat_log' = save_message(chat_log, session, "user", text)
          /\ threads' = [threads EXCEPT ![session] = WithMessage(@, HumanMessage(text))]
          /\ run' = [status |-> "running", thread |-> session,
                     node |-> "understand_intent", caller |-> "process_message"]
    /\ turns' = turns + 1
    /\ UNCHANGED <<response, toolVars, loyaltyVars, storageVars>>

\* _understand_intent, then the conditional edge. The classifier returns one of
\* Intents or raises, and the except branch settles on "browsing".
UnderstandIntent ==
    /\ At("understand_intent")
    /\ \E classified \in Intents \cup {"raise"} :
          LET detected_intent == IF classified = "raise" THEN "browsing" ELSE classified
              update == [State EXCEPT !.current_intent = detected_intent]
          IN  Apply(update, conditional_edges(_route_intent(update)))
    /\ UNCHANGED <<response, turns, chat_log, toolVars, loyaltyVars, storageVars>>

\* _greet_customer
GreetCustomer ==
    /\ At("greet_customer")
    /\ Apply([WithMessage(State, AIMessage(GreetingText))
                EXCEPT !.current_step = "introduced"],
             edge("greet_customer"))
    /\ UNCHANGED <<response, turns, chat_log, toolVars, loyaltyVars, storageVars>>

\* _recommend_products: the recommendation agent answers or raises.
RecommendProducts ==
    /\ At("recommend_products")
    /\ \E raised \in BOOLEAN :
          Apply(WithMessage(State,
                    AIMessage(IF raised THEN RecommendFallback ELSE SpecialistText)),
                edge("recommend_products"))
    /\ UNCHANGED <<response, turns, chat_log, toolVars, loyaltyVars, storageVars>>

\* _check_inventory: for a category question the products found are listed,
\* otherwise (or with none found) the inventory agent answers; either agent
\* may raise.
CheckInventory ==
    /\ At("check_inventory")
    /\ \E outcome \in {"raise", "products", "answer"} :
          /\ outcome = "products" => MentionsCategory(last_message(State))
          /\ Apply(WithMessage(State,
                       AIMessage(CASE outcome = "raise" -> InventoryFallback
                                   [] outcome = "products" -> StockText
                                   [] outcome = "answer" -> SpecialistText)),
                   edge("check_inventory"))
    /\ UNCHANGED <<response, turns, chat_log, toolVars, loyaltyVars, storageVars>>

\* _manage_cart: no node and no input writes state.cart, so it is empty.
ManageCart ==
    /\ At("manage_cart")
    /\ Apply(WithMessage(State, AIMessage(CartEmptyText)), edge("manage_cart"))
    /\ UNCHANGED <<response, turns, chat_log, toolVars, loyaltyVars, storageVars>>

\* _process_payment: reads the profile and the coupons from storage.
ProcessPaymentNode ==
    /\ At("process_payment")
    /\ \E raised \in BOOLEAN :
          Apply(WithMessage(State,
                    AIMessage(IF raised THEN PaymentFallback ELSE CheckoutText)),
                edge("process_payment"))
    /\ UNCHANGED <<response, turns, chat_log, toolVars, loyaltyVars, storageVars>>

\* _fulfill_order: the fulfillment agent is asked to "Create order for
\* <customer>"; it answers, having called create_order or not, or raises.
FulfillOrder ==
    /\ At("fulfill_order")
    /\ \/ /\ \E raised \in BOOLEAN :
                Apply(WithMessage(State,
                          AIMessage(IF raised THEN FulfillFallback ELSE SpecialistText)),
                      edge("fulfill_order"))
          /\ UNCHANGED toolVars
       \/ /\ Apply(WithMessage(State, AIMessage(SpecialistText)), edge("fulfill_order"))
          /\ \E o \in OrderIds :
                create_order(CustomerOf(run.thread), "buy_in_store", "None", "None", o)
    /\ UNCHANGED <<response, turns, chat_log, loyaltyVars, storageVars>>

\* _handle_support: the post-purchase agent answers, having filed a return or
\* not, or raises; the node has no try block, so the exception leaves the graph.
HandleSupport ==
    /\ At("handle_support")
    /\ \/ /\ Apply(WithMessage(State, AIMessage(SpecialistText)), edge("handle_support"))
          /\ \/ UNCHANGED toolVars
             \/ \E o \in OrderIds, r \in ReturnIds :
                   initiate_return(o, CustomerOf(run.thread), "damaged", r)
       \/ /\ run' = [run EXCEPT !.status = "error"]
          /\ UNCHANGED <<threads, toolVars>>
    /\ UNCHANGED <<response, turns, chat_log, loyaltyVars, storageVars>>

\* _end_conversation
EndConversation ==
    /\ At("end_conversation")
    /\ Apply([WithMessage(State, AIMessage(FarewellText))
                EXCEPT !.current_step = "ended"],
             edge("end_conversation"))
    /\ UNCHANGED <<response, turns, chat_log, toolVars, loyaltyVars, storageVars>>

\* [m for m in result["messages"] if hasattr(m, 'role') and m.role == "assistant"]
assistant_messages(messages) ==
    SelectSeq(messages, LAMBDA m : HasRole(m) /\ RoleOf(m) = "assistant")

\* assistant_messages[-1].content if assistant_messages else "How can I help you today?"
response_text(messages) ==
    LET found == assistant_messages(messages)
    IN  IF found # <<>> THEN found[Len(found)].content ELSE DefaultText

\* ainvoke returned: the caller picks the response text (and process_message
\* saves it).
Respond ==
    /\ At("END")
    /\ response' = response_text(State.messages)
    /\ chat_log' =
          IF run.caller = "process_message"
          THEN save_message(chat_log, run.thread, "assistant", response_text(State.messages))
          ELSE chat_log
    /\ run' = [run EXCEPT !.status = "returned"]
    /\ UNCHANGED <<threads, turns, toolVars, loyaltyVars, storageVars>>

\* ============================================ SupabaseDB loyalty points
\* The two callers of update_loyalty_points (two workers or channel processes,
\* each with its own SupabaseDB handler on the one remote table).
Callers == {"a", "b"}

NoCall == [pc |-> "idle", points_to_add |-> 0, current_points |-> 0, returned |-> "None"]

\* update_loyalty_points up to the profile read: get_customer_profile returns
\* the row, or None (the select raised, or no such customer) and the call
\* returns False.
ReadPoints(p) ==
    /\ lp.calls[p].pc = "idle"
    /\ \E points_to_add \in 1..MaxPoints, found \in BOOLEAN :
          lp' = [lp EXCEPT !.calls[p] =
                    IF found
                    THEN [pc |-> "read", points_to_add |-> points_to_add,
                          current_points |-> customers, returned |-> "None"]
                    ELSE [pc |-> "done", points_to_add |-> points_to_add,
                          current_points |-> 0, returned |-> "False"]]
    /\ UNCHANGED <<customers, toolVars, graphVars, storageVars>>

\* new_points = current_points + points_to_add
new_points(call) == call.current_points + call.points_to_add

\* update_loyalty_points from the update on: the row takes new_points and the
\* call returns True, or the update raises and the call returns False.
WritePoints(p) ==
    /\ lp.calls[p].pc = "read"
    /\ \/ /\ customers' = new_points(lp.calls[p])
          /\ lp' = [lp EXCEPT !.calls[p].pc = "done", !.calls[p].returned = "True"]
       \/ /\ lp' = [lp EXCEPT !.calls[p].pc = "done", !.calls[p].returned = "False"]
          /\ UNCHANGED customers
    /\ UNCHANGED <<toolVars, graphVars, storageVars>>

ReadPointsStep == \E p \in Callers : ReadPoints(p)

WritePointsStep == \E p \in Callers : WritePoints(p)

\* ===================================================== storage backends
\* What an instance of SupabaseDB answers to getattr.
SupabaseDB ==
    {"_client", "is_connected", "save_message", "get_chat_history",
     "get_customer_sessions", "get_customer_profile", "update_loyalty_points",
     "save_order", "get_customer_orders", "get_available_coupons",
     "_tier_to_level"}

\* What an instance of InMemoryStorage answers to getattr.
InMemoryStorage ==
    {"chat_history", "customer_profiles", "orders", "save_message",
     "get_chat_history", "get_customer_profile", "get_customer_orders"}

\* hasattr(backend, name), backend being the global db or memory_storage
hasattr(backend, name) ==
    name \in (IF backend = "db" THEN SupabaseDB ELSE InMemoryStorage)

\* db.is_connected
is_connected == db_client # "None"

\* get_storage()
get_storage == IF is_connected THEN "db" ELSE "memory_storage"

NoAnswer == [op |-> "none", on |-> "None", outcome |-> "none"]

\* backend.name was evaluated: it returned, or the attribute lookup raised.
Evaluated(backend, name) ==
    [op |-> name, on |-> backend,
     outcome |-> IF hasattr(backend, name) THEN "returned" ELSE "AttributeError"]

Unloaded == [loaded |-> "no", storage |-> "None"]

\* The module body of agents.loyalty_agent: storage = get_storage(), then the
\* print of storage.is_connected. agents.sales_agent imports this module, so
\* nothing of the application runs before it.
ImportLoyaltyAgent ==
    /\ loyalty_agent.loaded = "no"
    /\ answer' = Evaluated(get_storage, "is_connected")
    /\ loyalty_agent' =
          IF hasattr(get_storage, "is_connected")
          THEN [loaded |-> "yes", storage |-> get_storage]
          ELSE [loaded |-> "AttributeError", storage |-> "None"]
    /\ UNCHANGED <<db_client, chat_log, threads, run, response, turns,
                   toolVars, loyaltyVars>>

\* SalesAgent.process_message: storage = get_storage();
\* storage.save_message(session_id, customer_id, "user", message). On db the
\* insert adds the row and returns True, or raises and returns False.
SaveMessage ==
    /\ loyalty_agent.loaded = "yes"
    /\ Len(chat_log) < MaxRows
    /\ answer' = Evaluated(get_storage, "save_message")
    /\ \E session \in SessionIds, text \in UserTexts, inserted \in BOOLEAN :
          chat_log' = IF inserted \/ get_storage = "memory_storage"
                      THEN save_message(chat_log, session, "user", text)
                      ELSE chat_log
    /\ UNCHANGED <<db_client, loyalty_agent, threads, run, response, turns,
                   toolVars, loyaltyVars>>

\* The reads the loyalty tools make on the module's storage:
\* get_customer_profile (get_customer_profile, get_personalized_offers),
\* get_customer_orders (get_personalized_offers) and is_connected
\* (validate_promo_code).
ReadStorage ==
    /\ loyalty_agent.loaded = "yes"
    /\ \E name \in {"get_customer_profile", "get_customer_orders", "is_connected"} :
          answer' = Evaluated(loyalty_agent.storage, name)
    /\ UNCHANGED <<db_client, loyalty_agent, graphVars, toolVars, loyaltyVars>>

\* ========================================================= loyalty tools
\* Python's None, and a value that is not None.
None == <<>>
Some(value) == <<value>>

\* LoyaltyConfig.TIERS, and the order its items() come in.
TIERS ==
    [Bronze   |-> [min_points |-> 0,     discount |-> 0],
     Silver   |-> [min_points |-> 1000,  discount |-> 5],
     Gold     |-> [min_points |-> 5000,  discount |-> 10],
     Platinum |-> [min_points |-> 15000, discount |-> 15]]

TIERS_items == <<"Bronze", "Silver", "Gold", "Platinum">>

tier_order == <<"Bronze", "Silver", "Gold", "Platinum">>

\* tier_order.index(tier)
tier_index(tier) == CHOOSE i \in 1..Len(tier_order) : tier_order[i] = tier

\* The customers table holds the one row of customer C001.
KnownCustomers == {"C001"}

\* storage.get_customer_profile(customer_id): on db the row, or None when the
\* handler is not connected or select().single() raised (no such row); on
\* memory_storage customer_profiles.get(customer_id), a dict nothing fills.
storage_get_customer_profile(customer_id) ==
    IF loyalty_agent.storage = "db" /\ is_connected /\ customer_id \in KnownCustomers
    THEN Some([customer_id |-> customer_id, loyalty_points |-> customers])
    ELSE None

\* the tool get_customer_profile
get_customer_profile(customer_id) ==
    LET profile == storage_get_customer_profile(customer_id)
    IN  IF profile = None
        THEN [error |-> "No customer found", customer_id |-> customer_id]
        ELSE profile[1]

\* total_points >= tier_data["min_points"], with > in place of >=
reaches_tier_above(total_points, tier_name) ==
    total_points > TIERS[tier_name].min_points

\* total_points >= tier_data["min_points"]
reaches_tier(total_points, tier_name) ==
    total_points >= TIERS[tier_name].min_points

\* for tier_name, tier_data in TIERS.items(): ... from item i on
RECURSIVE tier_loop(_, _, _)
tier_loop(i, total_points, current_tier) ==
    IF i > Len(TIERS_items)
    THEN current_tier
    ELSE tier_loop(i + 1, total_points,
                   IF reaches_tier(total_points, TIERS_items[i])
                   THEN TIERS_items[i]
                   ELSE current_tier)

\* the tool get_customer_tier, from its profile_result on
tier_record(profile_result) ==
    IF "error" \in DOMAIN profile_result
    THEN profile_result
    ELSE LET total_points == profile_result.loyalty_points
             current_tier == tier_loop(1, total_points, "Bronze")
             current_idx  == tier_index(current_tier)
             has_next     == current_idx < Len(tier_order)
             next_tier_name   == tier_order[current_idx + 1]
             next_tier_points == TIERS[next_tier_name].min_points
         IN  [tier |-> current_tier,
              discount_percentage |-> TIERS[current_tier].discount,
              next_tier |->
                  IF has_next
                  THEN Some([name |-> next_tier_name,
                             required_points |-> next_tier_points])
                  ELSE None,
              points_to_next |->
                  IF has_next THEN Some(next_tier_points - total_points) ELSE None]

get_customer_tier(customer_id) == tier_record(get_customer_profile(customer_id))

\* A loyalty tool returned `value` for customer_id.
Answered(tool, customer_id, value) ==
    [op |-> tool, on |-> loyalty_agent.storage, outcome |-> "returned",
     customer_id |-> customer_id, value |-> value]

\* get_customer_tier.invoke({"customer_id": customer_id})
GetCustomerTier ==
    /\ loyalty_agent.loaded = "yes"
    /\ \E customer_id \in CustomerIds :
          answer' = Answered("get_customer_tier", customer_id,
                             get_customer_tier(customer_id))
    /\ UNCHANGED <<db_client, loyalty_agent, graphVars, toolVars, loyaltyVars>>

\* ---------------------------------------------------------- Python floats
\* cart_total and every amount derived from it is a Python float: a binary
\* number of MantissaBits significant bits, each operation rounding its exact
\* result to the nearest such number, ties to the even one. A float is kept
\* here as its sign and its magnitude in units of 2^-FractionBits, the
\* magnitude as its digits in base 2^DigitBits, lowest first, without leading
\* zeros. The amounts met (zero, or between 2^-7 and 2^30) are whole numbers
\* of units.
MantissaBits == 53
DigitBits == 15
FractionDigits == 4
FractionBits == FractionDigits * DigitBits

RECURSIVE Pow2(_)
Pow2(n) == IF n = 0 THEN 1 ELSE 2 * Pow2(n - 1)

Base == Pow2(DigitBits)

Max(a, b) == IF a >= b THEN a ELSE b

\* The digits of b without leading zeros.
RECURSIVE Norm(_)
Norm(b) ==
    IF b = <<>> \/ b[Len(b)] # 0 THEN b ELSE Norm(SubSeq(b, 1, Len(b) - 1))

\* The digits of the natural number n.
RECURSIVE FromNat(_)
FromNat(n) == IF n = 0 THEN <<>> ELSE <<n % Base>> \o FromNat(n \div Base)

\* The natural number of the digits b.
RECURSIVE ToNat(_)
ToNat(b) == IF b = <<>> THEN 0 ELSE b[1] + Base * ToNat(Tail(b))

\* How many binary digits the natural number n has.
RECURSIVE BitLength(_)
BitLength(n) == IF n = 0 THEN 0 ELSE 1 + BitLength(n \div 2)

\* How many binary digits the magnitude b has.
Bits(b) ==
    IF b = <<>> THEN 0 ELSE DigitBits * (Len(b) - 1) + BitLength(b[Len(b)])

DigitAt(b, i) == IF i <= Len(b) THEN b[i] ELSE 0

RECURSIVE AddFrom(_, _, _, _)
AddFrom(a, b, i, carry) ==
    IF i > Max(Len(a), Len(b))
    THEN FromNat(carry)
    ELSE LET sum == DigitAt(a, i) + DigitAt(b, i) + carry
         IN  <<sum % Base>> \o AddFrom(a, b, i + 1, sum \div Base)

\* a + b
AddDigits(a, b) == AddFrom(a, b, 1, 0)

RECURSIVE SubFrom(_, _, _, _)
SubFrom(a, b, i, borrow) ==
    IF i > Len(a)
    THEN <<>>
    ELSE LET diff == DigitAt(a, i) - DigitAt(b, i) - borrow
         IN  <<(diff + Base) % Base>>
                \o SubFrom(a, b, i + 1, IF diff < 0 THEN 1 ELSE 0)

\* a - b, for a >= b
SubDigits(a, b) == Norm(SubFrom(a, b, 1, 0))

RECURSIVE LessFrom(_, _, _)
LessFrom(a, b, i) ==
    IF i = 0 THEN FALSE
    ELSE IF a[i] # b[i] THEN a[i] < b[i]
    ELSE LessFrom(a, b, i - 1)

\* a < b
LessDigits(a, b) ==
    IF Len(a) # Len(b) THEN Len(a) < Len(b) ELSE LessFrom(a, b, Len(a))

RECURSIVE MulFrom(_, _, _, _)
MulFrom(a, k, i, carry) ==
    IF i > Len(a)
    THEN FromNat(carry)
    ELSE LET sum == a[i] * k + carry
         IN  <<sum % Base>> \o MulFrom(a, k, i + 1, sum \div Base)

\* a * k, k a natural number up to Base
MulSmall(a, k) == IF k = 0 THEN <<>> ELSE MulFrom(a, k, 1, 0)

\* Long division of the digits a[1..i] after a remainder rem of the higher ones.
RECURSIVE DivFrom(_, _, _, _)
DivFrom(a, k, i, rem) ==
    IF i = 0
    THEN [q |-> <<>>, rem |-> rem]
    ELSE LET part  == Base * rem + a[i]
             lower == DivFrom(a, k, i - 1, part % k)
         IN  [q |-> Append(lower.q, part \div k), rem |-> lower.rem]

\* a \div k and a % k, k a positive natural number up to Base
DivSmall(a, k) ==
    LET d == DivFrom(a, k, Len(a), 0) IN [q |-> Norm(d.q), rem |-> d.rem]

\* The float nearest to the exact result b (inexact: the exact result lies
\* above b, by less than one unit): the top MantissaBits binary digits, plus
\* one when what is dropped is over half of the last kept place, or is half of
\* it and the last kept digit is odd.
Round(b, inexact) ==
    IF Bits(b) <= MantissaBits
    THEN b
    ELSE LET d     == Bits(b) - MantissaBits
             whole == (d - 1) \div DigitBits
             r     == d - DigitBits * whole
             top   == DivSmall(SubSeq(b, whole + 1, Len(b)), Pow2(r))
             kept  == top.q
             half  == Pow2(r - 1)
             rest  == \/ inexact
                      \/ top.rem % half # 0
                      \/ \E i \in 1..whole : b[i] # 0
             up    == top.rem >= half /\ (rest \/ kept[1] % 2 = 1)
             mant  == IF up THEN AddDigits(kept, <<1>>) ELSE kept
         IN  [i \in 1..whole |-> 0] \o MulSmall(mant, Pow2(r))

Zero == [neg |-> FALSE, mag |-> <<>>]

\* float(n) of an int n >= 0
Float(n) ==
    [neg |-> FALSE,
     mag |-> IF n = 0 THEN <<>> ELSE [i \in 1..FractionDigits |-> 0] \o FromNat(n)]

\* x * k, k an int >= 0
fmul(x, k) ==
    LET mag == Round(MulSmall(x.mag, k), FALSE)
    IN  [neg |-> x.neg /\ mag # <<>>, mag |-> mag]

\* x / k, k an int > 0
fdiv(x, k) ==
    LET d   == DivSmall(x.mag, k)
        mag == Round(d.q, d.rem # 0)
    IN  [neg |-> x.neg /\ mag # <<>>, mag |-> mag]

\* x < y
fless(x, y) ==
    IF x.neg # y.neg THEN x.neg
    ELSE IF x.neg THEN LessDigits(y.mag, x.mag)
    ELSE LessDigits(x.mag, y.mag)

\* min(x, y) and max(x, y)
fmin(x, y) == IF fless(y, x) THEN y ELSE x
fmax(x, y) == IF fless(x, y) THEN y ELSE x

\* The exact x - y.
Minus(x, y) ==
    IF x.neg # y.neg
    THEN [neg |-> x.neg, mag |-> AddDigits(x.mag, y.mag)]
    ELSE IF LessDigits(x.mag, y.mag)
    THEN [neg |-> ~x.neg, mag |-> SubDigits(y.mag, x.mag)]
    ELSE LET mag == SubDigits(x.mag, y.mag)
         IN  [neg |-> x.neg /\ mag # <<>>, mag |-> mag]

\* The exact x + y.
Plus(x, y) == Minus(x, [neg |-> ~y.neg /\ y.mag # <<>>, mag |-> y.mag])

\* x - y
fsub(x, y) ==
    LET exact == Minus(x, y)
    IN  [neg |-> exact.neg, mag |-> Round(exact.mag, FALSE)]

\* int(x), x >= 0
int(x) == ToNat(SubSeq(x.mag, FractionDigits + 1, Len(x.mag)))

\* ------------------------------------------------------- the pricing tools
\* LoyaltyConfig.RUPEES_PER_POINT, the float 0.1
RUPEES_PER_POINT == fdiv(Float(1), 10)

\* the tool calculate_points_value
calculate_points_value(points) == fmul(RUPEES_PER_POINT, points)

\* The coupons table: a percentage and a fixed coupon as data/generate_data.py
\* writes them, and one withdrawn.
coupons ==
    [SAVE20  |-> [discount_type |-> "percentage", discount_value |-> 20,
                  max_discount |-> 5000, min_purchase |-> 0,
                  min_tier_required |-> 0, active |-> TRUE, in_window |-> TRUE],
     FLAT500 |-> [discount_type |-> "fixed", discount_value |-> 500,
                  max_discount |-> 500, min_purchase |-> 2000,
                  min_tier_required |-> 0, active |-> TRUE, in_window |-> TRUE],
     OLD10   |-> [discount_type |-> "percentage", discount_value |-> 10,
                  max_discount |-> 0, min_purchase |-> 0,
                  min_tier_required |-> 0, active |-> FALSE, in_window |-> TRUE]]

\* SupabaseDB._tier_to_level
_tier_to_level(tier) == tier_index(tier) - 1

Invalid == [valid |-> FALSE, discount_amount |-> Zero]

\* the discount of a coupon that passed the checks
promo_amount(promo, cart_total) ==
    IF promo.discount_type = "percentage"
    THEN LET discount == fdiv(fmul(cart_total, promo.discount_value), 100)
         IN  IF promo.max_discount # 0
             THEN fmin(discount, Float(promo.max_discount))
             ELSE discount
    ELSE fmin(Float(promo.discount_value), cart_total)

\* the tool validate_promo_code
validate_promo_code(promo_code, cart_total, customer_tier) ==
    IF ~is_connected
    THEN Invalid
    ELSE IF promo_code \notin DOMAIN coupons
    THEN Invalid
    ELSE LET promo == coupons[promo_code]
         IN  IF \/ ~promo.active
                \/ ~promo.in_window
                \/ fless(cart_total, Float(promo.min_purchase))
                \/ _tier_to_level(customer_tier) < promo.min_tier_required
             THEN Invalid
             ELSE [valid |-> TRUE, discount_amount |-> promo_amount(promo, cart_total)]

\* The steps of calculate_final_pricing, each amount computed once from the
\* ones before it: cart_total a float, promo_code a code or None,
\* points_to_redeem an int.
calculate_final_pricing(cart_total, customer_id, promo_code, points_to_redeem) ==
    \E original_total \in {cart_total} :
    \E tier_info_result \in
          {IF customer_id # None THEN get_customer_tier(customer_id[1])
                                 ELSE [error |-> "no customer_id"]} :
    \E tier \in {IF "error" \in DOMAIN tier_info_result
                 THEN "Bronze"
                 ELSE tier_info_result.tier} :
    \E tier_discount \in {fdiv(fmul(original_total, TIERS[tier].discount), 100)} :
    \E after_tier \in {fsub(original_total, tier_discount)} :
    \E promo_result \in
          {IF promo_code # None
           THEN validate_promo_code(promo_code[1], after_tier, tier)
           ELSE Invalid} :
    \E promo_discount \in
          {IF promo_result.valid THEN promo_result.discount_amount ELSE Zero} :
    \E after_promo \in
          {IF promo_result.valid THEN fsub(after_tier, promo_discount) ELSE after_tier} :
    \E points_value \in
          {IF points_to_redeem > 0
           THEN fmin(calculate_points_value(points_to_redeem), after_promo)
           ELSE Zero} :
    \E final_cart \in
          {IF points_to_redeem > 0 THEN fsub(after_promo, points_value) ELSE after_promo} :
    \E points_earned \in
          {int(IF tier = "Platinum" THEN fdiv(fmul(final_cart, 3), 2)
                                    ELSE fmul(final_cart, 1))} :
    \E final_total \in {fmax(final_cart, Zero)} :
       answer' =
          [op |-> "calculate_final_pricing", on |-> loyalty_agent.storage,
           outcome |-> "returned",
           customer_id |-> customer_id, promo_code |-> promo_code,
           points_to_redeem |-> points_to_redeem,
           value |-> [original_total |-> original_total,
                      tier_discount |-> tier_discount,
                      promo_discount |-> promo_discount,
                      points_redeemed_value |-> points_value,
                      final_total |-> final_total,
                      savings |-> fsub(original_total, final_total),
                      points_earned |-> points_earned]]

CartTotals == {0, 1000, 1999, 2500}
PromoCodes == {None, Some("SAVE20"), Some("FLAT500"), Some("OLD10"), Some("NOPE")}
PointsToRedeem == {0, 1, 250, 30000}
TierBalances == {TIERS[t].min_points : t \in DOMAIN TIERS}

\* calculate_final_pricing.invoke({...}), once in a run of the agent
CalculateFinalPricing ==
    /\ loyalty_agent.loaded = "yes"
    /\ answer = NoAnswer
    /\ \E cart_total \in CartTotals, promo_code \in PromoCodes,
          customer_id \in {None} \cup {Some(c) : c \in CustomerIds},
          points_to_redeem \in PointsToRedeem :
          calculate_final_pricing(Float(cart_total), customer_id, promo_code,
                                  points_to_redeem)
    /\ UNCHANGED <<db_client, loyalty_agent, graphVars, toolVars, loyaltyVars>>

\* ------------------------------------------------------------ tool inputs
Addresses == {"None", "addr"}
Stores == {"None", "MUM01"}
Reasons == {"Customer request", "found it cheaper"}
Amounts == {1000, 20000}
RefundAmounts == {NoAmount, 0, 500, 30000}

\* ================================================================== Init
EmptyStore == <<>>

InitTools ==
    /\ _orders = EmptyStore
    /\ _transactions = EmptyStore
    /\ _return_requests = EmptyStore
    /\ result = NoResult

InitGraph ==
    /\ threads = [session \in SessionIds |-> NewThread]
    /\ run = Idle
    /\ response = "None"
    /\ turns = 0
    /\ chat_log = <<>>

\* The customer's loyalty_points and no update under way.
InitLoyaltyAt(points) ==
    /\ customers = points
    /\ lp = [initial |-> points, calls |-> [p \in Callers |-> NoCall]]

\* The handler db was constructed with or without credentials.
InitStorageAt(client) ==
    /\ db_client = client
    /\ answer = NoAnswer

\* The application is up: the datastore is connected and agents.loyalty_agent
\* was imported on it.
InitStorage ==
    /\ InitStorageAt("Client")
    /\ loyalty_agent = [loaded |-> "yes", storage |-> "db"]

InitLoyalty == InitLoyaltyAt(0)

Init == InitTools /\ InitGraph /\ InitLoyalty /\ InitStorage

\* ============================================== the fulfillment toolkit
CreateOrder ==
    /\ \E f \in FulfillmentType, a \in Addresses, s \in Stores, o \in OrderIds :
          create_order("C001", f, a, s, o)
    /\ UNCHANGED <<graphVars, loyaltyVars, storageVars>>

CancelOrder ==
    /\ \E o \in OrderIds, r \in Reasons : cancel_order(o, r)
    /\ UNCHANGED <<graphVars, loyaltyVars, storageVars>>

GetOrderStatus ==
    /\ \E o \in OrderIds : get_order_status(o)
    /\ UNCHANGED <<graphVars, loyaltyVars, storageVars>>

NextFulfillment == CreateOrder \/ CancelOrder \/ GetOrderStatus

SpecFulfillment == Init /\ [][NextFulfillment]_vars

\* cancel_order over every order store: each order id absent or holding an
\* order in any OrderStatus.
OrdersOverStatus ==
    UNION {[ids -> {[NewOrder("C001", "buy_in_store", "None", "None")
                       EXCEPT !.status = st] : st \in OrderStatus}]
             : ids \in SUBSET OrderIds}

InitCancel ==
    /\ _orders \in OrdersOverStatus
    /\ _transactions = EmptyStore
    /\ _return_requests = EmptyStore
    /\ result = NoResult
    /\ InitGraph
    /\ InitLoyalty
    /\ InitStorage

SpecCancel == InitCancel /\ [][CancelOrder]_vars

\* ================================================== the payment toolkit
InitiatePayment ==
    /\ \E a \in Amounts, m \in PaymentMethod, t \in TxnIds :
          initiate_payment("C001", a, m, t)
    /\ UNCHANGED <<graphVars, loyaltyVars, storageVars>>

ProcessPayment ==
    /\ \E t \in TxnIds, paid \in BOOLEAN : process_payment(t, paid)
    /\ UNCHANGED <<graphVars, loyaltyVars, storageVars>>

InitiateRefund ==
    /\ \E t \in TxnIds, a \in RefundAmounts : initiate_refund(t, a)
    /\ UNCHANGED <<graphVars, loyaltyVars, storageVars>>

NextPayment == InitiatePayment \/ ProcessPayment \/ InitiateRefund

SpecPayment == Init /\ [][NextPayment]_vars

\* ===================================== the three toolkits side by side
\* Any sequence of calls of the tools that write a store, with the inputs that
\* reach every status the tools write.
ToolCreateOrder ==
    /\ \E o \in OrderIds : create_order("C001", "buy_in_store", "None", "None", o)
    /\ UNCHANGED <<graphVars, loyaltyVars, storageVars>>

ToolCancelOrder ==
    /\ \E o \in OrderIds : cancel_order(o, "Customer request")
    /\ UNCHANGED <<graphVars, loyaltyVars, storageVars>>

ToolInitiatePayment ==
    /\ \E m \in {"credit_card", "cod", "upi"}, t \in TxnIds :
          initiate_payment("C001", 1000, m, t)
    /\ UNCHANGED <<graphVars, loyaltyVars, storageVars>>

ToolProcessPayment ==
    /\ \E t \in TxnIds, paid \in BOOLEAN : process_payment(t, paid)
    /\ UNCHANGED <<graphVars, loyaltyVars, storageVars>>

ToolInitiateRefund ==
    /\ \E t \in TxnIds : initiate_refund(t, NoAmount)
    /\ UNCHANGED <<graphVars, loyaltyVars, storageVars>>

\* The order id of a return is free text the tool never looks up: the first
\* order id stands for it.
ToolInitiateReturn ==
    /\ \E rs \in {"damaged", "changed_mind"}, r \in ReturnIds :
          initiate_return(CHOOSE o \in OrderIds : \A p \in OrderIds : o <= p,
                          "C001", rs, r)
    /\ UNCHANGED <<graphVars, loyaltyVars, storageVars>>

NextTools ==
    \/ ToolCreateOrder
    \/ ToolCancelOrder
    \/ ToolInitiatePayment
    \/ ToolProcessPayment
    \/ ToolInitiateRefund
    \/ ToolInitiateReturn

SpecTools == Init /\ [][NextTools]_vars

\* ======================================================= the whole graph
Next ==
    \/ Chat
    \/ ProcessMessage
    \/ UnderstandIntent
    \/ GreetCustomer
    \/ RecommendProducts
    \/ CheckInventory
    \/ ManageCart
    \/ ProcessPaymentNode
    \/ FulfillOrder
    \/ HandleSupport
    \/ EndConversation
    \/ Respond

Spec == Init /\ [][Next]_vars

\* ============================== two update_loyalty_points calls at once
InitUpdates ==
    /\ InitTools
    /\ InitGraph
    /\ \E points \in 0..MaxPoints : InitLoyaltyAt(points)
    /\ InitStorage

NextLoyalty == ReadPointsStep \/ WritePointsStep

SpecLoyalty == InitUpdates /\ [][NextLoyalty]_vars

\* ================================================ the process from start
\* The process starts with or without datastore credentials and imports the
\* agents package.
InitProcess ==
    /\ InitTools
    /\ InitGraph
    /\ InitLoyalty
    /\ \E client \in {"None", "Client"} : InitStorageAt(client)
    /\ loyalty_agent = Unloaded

NextStorage == ImportLoyaltyAgent \/ SaveMessage \/ ReadStorage

SpecStorage == InitProcess /\ [][NextStorage]_vars

\* ===================================================== get_customer_tier
\* The application is up and the customer's row holds any balance.
InitTier ==
    /\ InitTools
    /\ InitGraph
    /\ \E points \in 0..MaxLoyaltyPoints : InitLoyaltyAt(points)
    /\ InitStorage

SpecTier == InitTier /\ [][GetCustomerTier]_vars

\* =============================================== calculate_final_pricing
\* The application is up and the customer's row holds the lowest balance of
\* one of the tiers.
InitPricing ==
    /\ InitTools
    /\ InitGraph
    /\ \E points \in TierBalances : InitLoyaltyAt(points)
    /\ InitStorage

SpecPricing == InitPricing /\ [][CalculateFinalPricing]_vars

\* ================================================================ claims
\* C3: in every reachable state each stored order's status is in OrderStatus,
\* each stored transaction's status is in PaymentStatus, and each stored
\* return request's status is requested or approved.
C3_StatusesEnumerated ==
    /\ \A o \in DOMAIN _orders : _orders[o].status \in OrderStatus
    /\ \A t \in DOMAIN _transactions : _transactions[t].status \in PaymentStatus
    /\ \A r \in DOMAIN _return_requests :
          _return_requests[r].status \in {"requested", "approved"}

\* A cancelled order, a refunded transaction and an approved return side by side.
C3_Witness ==
    /\ \E o \in DOMAIN _orders : _orders[o].status = "cancelled"
    /\ \E t \in DOMAIN _transactions : _transactions[t].status = "refunded"
    /\ \E r \in DOMAIN _return_requests : _return_requests[r].status = "approved"

\* C6: whenever an order is stored, a completed payment transaction of the
\* order's customer already exists.
C6_OrderAfterPayment ==
    [][\A o \in OrderIds :
          (/\ o \in DOMAIN _orders'
           /\ (o \notin DOMAIN _orders \/ _orders'[o] # _orders[o])
           /\ _orders'[o].status = "confirmed")
          => \E t \in DOMAIN _transactions :
                /\ _transactions[t].status = "completed"
                /\ _transactions[t].customer_id = _orders'[o].customer_id]_vars

\* C8: cancel_order succeeds exactly when the order exists with status
\* pending, confirmed or processing; on success the order is cancelled with
\* the reason recorded and the other orders untouched; on failure the store is
\* unchanged; cancelling a cancelled order fails.
C8_CancelOrder ==
    [][\A o \in OrderIds, r \in Reasons :
          cancel_order(o, r) =>
            LET exists == o \in DOMAIN _orders
                open == exists /\ _orders[o].status \in {"pending", "confirmed", "processing"}
            IN  /\ result'.success = open
                /\ open =>
                     /\ DOMAIN _orders' = DOMAIN _orders
                     /\ _orders'[o].status = "cancelled"
                     /\ _orders'[o].cancellation_reason = r
                     /\ \A p \in DOMAIN _orders \ {o} : _orders'[p] = _orders[p]
                /\ ~open => _orders' = _orders
                /\ (exists /\ _orders[o].status = "cancelled") => ~result'.success]_vars

\* A refused cancel of a shipped order after a successful cancel of another.
C8_Witness ==
    /\ result = Returned("cancel_order", FALSE)
    /\ \E o \in DOMAIN _orders :
          /\ _orders[o].status = "cancelled"
          /\ _orders[o].cancellation_reason \in Reasons
    /\ \E o \in DOMAIN _orders : _orders[o].status = "shipped"

\* C9: create_order returns success=False and leaves _orders unchanged when
\* ship_to_home lacks an address or click_and_collect lacks a store; every
\* other call succeeds and adds exactly one order, status confirmed, under an
\* order_id that was not in _orders.
C9_CreateOrder ==
    [][\A f \in FulfillmentType, a \in Addresses, s \in Stores, o \in OrderIds :
          create_order("C001", f, a, s, o) =>
            LET missing == \/ f = "ship_to_home" /\ a = "None"
                           \/ f = "click_and_collect" /\ s = "None"
            IN  /\ missing => (~result'.success /\ _orders' = _orders)
                /\ ~missing =>
                     /\ result'.success
                     /\ o \notin DOMAIN _orders
                     /\ DOMAIN _orders' = DOMAIN _orders \cup {o}
                     /\ _orders'[o].status = "confirmed"
                     /\ \A p \in DOMAIN _orders : _orders'[p] = _orders[p]]_vars

\* C10: initiate_refund succeeds only for a stored transaction whose status is
\* completed, and then leaves it refunded; it fails for an unknown id, a status
\* other than completed, or a refund amount above the transaction amount, and
\* every failure leaves _transactions unchanged.
C10_InitiateRefund ==
    [][\A t \in TxnIds, a \in RefundAmounts :
          initiate_refund(t, a) =>
            LET exists == t \in DOMAIN _transactions
            IN  /\ result'.success =>
                     /\ exists
                     /\ _transactions[t].status = "completed"
                     /\ _transactions'[t].status = "refunded"
                     /\ \A u \in DOMAIN _transactions \ {t} :
                           _transactions'[u] = _transactions[u]
                /\ ~result'.success => _transactions' = _transactions
                /\ (~exists
                    \/ _transactions[t].status # "completed"
                    \/ a > _transactions[t].amount) => ~result'.success]_vars

\* A partial refund went through, and a later refund of it was refused.
C10_Witness ==
    /\ result = Returned("initiate_refund", FALSE)
    /\ \E t \in DOMAIN _transactions :
          /\ _transactions[t].status = "refunded"
          /\ _transactions[t].refund_amount = 500

\* C1: a graph run starts at understand_intent, and the step that leaves
\* understand_intent enters the one node the classified intent names:
\* greeting -> greet_customer, browsing -> recommend_products,
\* product_inquiry -> check_inventory, cart_management -> manage_cart,
\* checkout -> process_payment, support -> handle_support,
\* end -> end_conversation.
C1_Routing ==
    [][/\ (run.status # "running" /\ run'.status = "running")
            => run'.node = "understand_intent"
       /\ (run.status = "running" /\ run.node = "understand_intent" /\ run' # run)
            => LET intent == threads'[run.thread].current_intent
               IN  /\ run'.status = "running"
                   /\ run'.thread = run.thread
                   /\ intent = "greeting" => run'.node = "greet_customer"
                   /\ intent = "browsing" => run'.node = "recommend_products"
                   /\ intent = "product_inquiry" => run'.node = "check_inventory"
                   /\ intent = "cart_management" => run'.node = "manage_cart"
                   /\ intent = "checkout" => run'.node = "process_payment"
                   /\ intent = "support" => run'.node = "handle_support"
                   /\ intent = "end" => run'.node = "end_conversation"
                   /\ intent \in Intents]_vars

\* A checkout message has just been dispatched to process_payment.
C1_Witness ==
    /\ run.status = "running"
    /\ run.node = "process_payment"
    /\ threads[run.thread].current_intent = "checkout"
    /\ threads[run.thread].messages \in {<<HumanMessage(t)>> : t \in UserTexts}

\* C2: no graph run ends with an exception that left recommend_products,
\* check_inventory, process_payment, fulfill_order or handle_support: a
\* delegate that raises yields a fallback message and the run goes on.
C2_DelegateErrorsCaught ==
    ~(/\ run.status = "error"
      /\ run.node \in {"recommend_products", "check_inventory", "process_payment",
                       "fulfill_order", "handle_support"})

\* C4: the response text of a finished turn is the content of the last
\* assistant message of the run's message list, and the default text only
\* when the list holds no assistant message.
C4_ResponseIsLastAssistant ==
    run.status = "returned" =>
        LET msgs == threads[run.thread].messages
            ai == {i \in 1..Len(msgs) : msgs[i].class = "AIMessage"}
        IN  IF ai = {}
            THEN response = DefaultText
            ELSE response = msgs[CHOOSE i \in ai : \A j \in ai : j <= i].content

\* C5: within a session the message history only grows: in every step each
\* thread's messages are a prefix of its messages after the step.
C5_HistoryAppendOnly ==
    [][\A s \in SessionIds :
          /\ Len(threads[s].messages) <= Len(threads'[s].messages)
          /\ SubSeq(threads'[s].messages, 1, Len(threads[s].messages))
                = threads[s].messages]_vars

\* C7: once two update_loyalty_points calls for the customer have both
\* returned True, loyalty_points is the initial balance plus both additions.
C7_NoLostUpdate ==
    (\A p \in Callers : lp.calls[p].pc = "done" /\ lp.calls[p].returned = "True")
        => customers = lp.initial + lp.calls["a"].points_to_add
                                  + lp.calls["b"].points_to_add

\* C11: initiate_return stores a return request only for an order that is in
\* _orders with status delivered (the 30 days of RETURN_WINDOW_DAYS are counted
\* from that delivery).
C11_ReturnOnlyDelivered ==
    [][\A o \in OrderIds, rs \in ReturnReason, r \in ReturnIds :
          (/\ initiate_return(o, "C001", rs, r)
           /\ r \in DOMAIN _return_requests')
          => /\ o \in DOMAIN _orders
             /\ _orders[o].status = "delivered"]_vars

\* C12: the module's storage is db exactly when db is connected and
\* memory_storage otherwise, and no storage operation of the orchestrator or
\* the loyalty tools fails for want of the attribute on the backend in use.
C12_StorageOperationsAvailable ==
    /\ loyalty_agent.loaded # "AttributeError"
    /\ answer.outcome # "AttributeError"
    /\ loyalty_agent.loaded = "yes" =>
          (loyalty_agent.storage = "db" <=> is_connected)

C14_FinalPricing ==
    answer.op = "calculate_final_pricing" =>
        LET v == answer.value
        IN  /\ ~fless(v.final_total, Zero)
            /\ ~fless(v.original_total, v.final_total)
            /\ v.savings = Minus(v.original_total, v.final_total)
            /\ v.savings = Plus(Plus(v.tier_discount, v.promo_discount),
                                v.points_redeemed_value)

====
